---------------------------- MODULE Spec2Model ----------------------------
(***************************************************************************)
(* The Wavefront OBJ lexer and parser of Karma/kabstractobjparser.cpp.     *)
(*                                                                         *)
(* The program state is the state of one KAbstractObjParserPrivate: the    *)
(* reader's two characters of lookahead, the two tokens of lookahead, the  *)
(* position and statistics counters, the scratch buffers, and the calls    *)
(* made on the sink (KAbstractObjParser::onVertex ...).  Every C++ method   *)
(* is an operator from a state record to a state record; a method's return *)
(* value is left in the field ret.  One action is one iteration of the     *)
(* dispatch loop of parse().                                               *)
(*                                                                         *)
(* Characters are one-character strings, a text is a sequence of them.     *)
(* Floating point values are exact rationals [n, d] in lowest terms, so a  *)
(* value of the model is the value the C++ arithmetic approximates; digit  *)
(* runs are short enough that int does not overflow.                       *)
(***************************************************************************)
EXTENDS Integers, Sequences, FiniteSets, TLC

VARIABLES
  doc,                  \* ghost: the text of the reader, line by line
  uninit,               \* ghost: what the uninitialised members held
  input,                \* m_reader: the characters the reader delivers
  rpos,                 \* m_reader: number of next() calls made so far
  m_currChar, m_peekChar,
  m_currToken, m_peekToken,
  m_currLineCount, m_currCharCount,
  m_vertexCount, m_textureCount, m_normalCount, m_parameterCount, m_faceCount,
  m_float4,
  m_vector_index_array,
  sink,                 \* the calls made on m_parser, in order
  lexed,                \* ghost: the tokens lexToken has returned, in order
  err,                  \* the arguments of the LEX_ERROR that aborted, or <<>>
  pc                    \* "parse", "returned" (parse() returned true), "aborted"

vars == <<doc, uninit, input, rpos, m_currChar, m_peekChar, m_currToken, m_peekToken,
          m_currLineCount, m_currCharCount, m_vertexCount, m_textureCount,
          m_normalCount, m_parameterCount, m_faceCount, m_float4,
          m_vector_index_array, sink, lexed, err, pc>>

(***************************************************************************)
(* Characters                                                              *)
(***************************************************************************)
EndOfFile == "EOF"
NEWLINE == "\n"
WHITESPACE == {" ", "\t", "\r"}

Digits == <<"0", "1", "2", "3", "4", "5", "6", "7", "8", "9">>

LowerCase == {"a", "b", "c", "d", "e", "f", "g", "h", "i", "j", "k", "l", "m",
              "n", "o", "p", "q", "r", "s", "t", "u", "v", "w", "x", "y", "z"}

UpperCase == {"A", "B", "C", "D", "E", "F", "G", "H", "I", "J", "K", "L", "M",
              "N", "O", "P", "Q", "R", "S", "T", "U", "V", "W", "X", "Y", "Z"}

isNumeric(c) == \E i \in 1..Len(Digits) : Digits[i] = c

isAlpha(c) == c \in LowerCase \cup UpperCase

toLower(c) == IF c = "E" THEN "e" ELSE c

\* c - '0'; the model applies it to digits only
ctoi(c) == (CHOOSE i \in 1..Len(Digits) : Digits[i] = c) - 1

(***************************************************************************)
(* Values of float: exact rationals in lowest terms                        *)
(***************************************************************************)
Abs(i) == IF i < 0 THEN -i ELSE i

RECURSIVE Gcd(_, _)
Gcd(a, b) == IF b = 0 THEN a ELSE Gcd(b, a % b)

Rat(n, d) ==
  LET g == Gcd(Abs(n), Abs(d))
      sg == IF d < 0 THEN -1 ELSE 1
  IN [n |-> sg * (n \div g), d |-> sg * (d \div g)]

RatOfInt(i) == [n |-> i, d |-> 1]
RatAdd(a, b) == Rat(a.n * b.d + b.n * a.d, a.d * b.d)
RatSub(a, b) == Rat(a.n * b.d - b.n * a.d, a.d * b.d)
RatMul(a, b) == Rat(a.n * b.n, a.d * b.d)

RECURSIVE Pow10(_)
Pow10(k) == IF k = 0 THEN 1 ELSE 10 * Pow10(k - 1)

\* std::powf(10.0f, power)
powf10(power) ==
  IF power >= 0 THEN RatOfInt(Pow10(power)) ELSE Rat(1, Pow10(-power))

(***************************************************************************)
(* Tokens                                                                  *)
(***************************************************************************)
ParseToken == {"PT_ERROR", "PT_EOF", "PT_VERTEX", "PT_TEXTURE", "PT_NORMAL",
               "PT_PARAMETER", "PT_FACE", "PT_OBJECT", "PT_GROUP",
               "PT_ENDSTATEMENT", "PT_STRING", "PT_INTEGER", "PT_FLOAT",
               "PT_MATERIAL", "PT_USEMATERIAL", "PT_SMOOTHING", "PT_SEPARATOR"}

\* ParseMap::ParseMap: the reserved words, each with its token
sg_reserved ==
  { <<<<"v">>, "PT_VERTEX">>,
    <<<<"v", "t">>, "PT_TEXTURE">>,
    <<<<"v", "n">>, "PT_NORMAL">>,
    <<<<"v", "p">>, "PT_PARAMETER">>,
    <<<<"f">>, "PT_FACE">>,
    <<<<"o">>, "PT_OBJECT">>,
    <<<<"g">>, "PT_GROUP">>,
    <<<<"m", "t", "l", "l", "i", "b">>, "PT_MATERIAL">>,
    <<<<"u", "s", "e", "m", "t", "l">>, "PT_USEMATERIAL">>,
    <<<<"s">>, "PT_SMOOTHING">> }

\* operator=(char) without the clear(): the character joins the old text
ParseString_keep(str, c) == Append(str, c)

\* ParseString::operator=(char): clear(), then += c
ParseString_assign(str, c) == <<c>>

\* ParseString::operator+=(char)
ParseString_append(str, c) == Append(str, c)

\* Token::Token(): m_token(PT_ERROR), an empty lexicon, m_attribute not set.
\* pos is a ghost: the index in input of the token's first character.
Token(garbage) ==
  [m_token |-> "PT_ERROR", m_lexicon |-> <<>>, m_attribute |-> garbage, pos |-> 0]

(***************************************************************************)
(* Reader                                                                  *)
(***************************************************************************)
\* Op applied to the value of v. Every method below takes the state it runs
\* in this way: the state is evaluated once, then the method's body runs on it.
ByValue(v, Op(_)) == CHOOSE r \in {Op(x) : x \in {v}} : TRUE

Running(s) == s.pc = "parse"

Return(arg, v) ==
  ByValue(arg, LAMBDA s :
      IF Running(s) THEN [s EXCEPT !.ret = v] ELSE s)

\* KAbstractReader::next(): the next character, EndOfFile from the end on
readerNext(arg) ==
  ByValue(arg, LAMBDA s :
      IF s.rpos < Len(s.input) THEN s.input[s.rpos + 1] ELSE EndOfFile)

nextChar(arg) ==
  ByValue(arg, LAMBDA s :
      IF ~Running(s) THEN s
      ELSE [s EXCEPT !.m_currChar = s.m_peekChar,
                     !.m_peekChar = readerNext(s),
                     !.rpos = @ + 1,
                     !.m_currLineCount = IF s.m_peekChar = NEWLINE THEN @ + 1 ELSE @,
                     !.m_currCharCount = IF s.m_peekChar = NEWLINE THEN 0 ELSE @ + 1,
                     !.ret = s.m_peekChar])

\* nextLine: m_currChar = m_reader->next() in the while loop
nextLineRead(arg) ==
  ByValue(arg, LAMBDA s :
      [s EXCEPT !.m_currChar = readerNext(s), !.rpos = @ + 1])

\* nextLine: the while loop, entered with the loop's condition to test
RECURSIVE nextLineLoop(_)
nextLineBreak(arg) ==
  ByValue(arg, LAMBDA s1 :
      IF s1.m_currChar = EndOfFile THEN s1 ELSE nextLineLoop(s1))
nextLineLoop(arg) ==
  ByValue(arg, LAMBDA s :
      IF s.m_currChar = NEWLINE THEN s ELSE nextLineBreak(nextLineRead(s)))

\* nextLine: m_peekChar = m_reader->next() after the loop
nextLinePeek(arg) ==
  ByValue(arg, LAMBDA s2 :
      [s2 EXCEPT !.m_peekChar = readerNext(s2), !.rpos = @ + 1])

nextLine(arg) ==
  ByValue(arg, LAMBDA s :
      IF ~Running(s) THEN s
      ELSE nextLinePeek(nextLineLoop([s EXCEPT !.m_currLineCount = @ + 1,
                                               !.m_currCharCount = 0,
                                               !.m_currChar = s.m_peekChar])))

(***************************************************************************)
(* Lexer                                                                   *)
(***************************************************************************)
\* LEX_ERROR is qFatal: the process aborts. pos is a ghost, the index in input
\* of the character.
\* LEX_ERROR that reports the character and lets the lexer go on
LEX_ERROR_resume(arg) ==
  ByValue(arg, LAMBDA s :
      [s EXCEPT !.err = [line |-> s.m_currLineCount, column |-> s.m_currCharCount,
                         char |-> s.m_currChar, pos |-> s.rpos - 1]])

LEX_ERROR(arg) ==
  ByValue(arg, LAMBDA s :
      [s EXCEPT !.pc = "aborted",
                !.err = [line |-> s.m_currLineCount, column |-> s.m_currCharCount,
                         char |-> s.m_currChar, pos |-> s.rpos - 1]])

\* the while loop of lexReadInteger and of lexReadInteger(int*), which also
\* keeps pow; ret is [integer, pow]
RECURSIVE lexReadDigits(_, _, _)
lexReadDigit(arg, integer, pow) ==
  ByValue(arg, LAMBDA s1 :
      lexReadDigits(s1, integer * 10 + ctoi(s1.ret), pow * 10))
lexReadDigits(arg, integer, pow) ==
  ByValue(arg, LAMBDA s :
      IF isNumeric(s.m_peekChar) THEN lexReadDigit(nextChar(s), integer, pow)
      ELSE Return(s, [integer |-> integer, pow |-> pow]))

\* the sign and the first digit that lexReadInteger takes from m_currChar
lexSign(arg) ==
  ByValue(arg, LAMBDA s :
      IF s.m_currChar = "-" THEN -1 ELSE 1)
lexFirstDigit(arg) ==
  ByValue(arg, LAMBDA s :
      IF s.m_currChar \in {"-", "+"} THEN 0 ELSE ctoi(s.m_currChar))

\* lexReadInteger: return sign * integer
lexReadIntegerReturn(arg, sign) ==
  ByValue(arg, LAMBDA s1 :
      Return(s1, sign * s1.ret.integer))

\* int lexReadInteger()
lexReadInteger(arg) ==
  ByValue(arg, LAMBDA s :
      lexReadIntegerReturn(lexReadDigits(s, lexFirstDigit(s), 1), lexSign(s)))

\* lexReadInteger(int*): (*power) = pow; return sign * integer
lexReadIntegerPowerReturn(arg, sign) ==
  ByValue(arg, LAMBDA s1 :
      Return(s1, [integer |-> sign * s1.ret.integer, pow |-> s1.ret.pow]))

\* int lexReadInteger(int *power); ret is [integer, pow]
lexReadIntegerPower(arg) ==
  ByValue(arg, LAMBDA s :
      lexReadIntegerPowerReturn(lexReadDigits(s, lexFirstDigit(s), 1), lexSign(s)))

\* token.m_attribute = v; the union holds the value last written
setAttribute(arg, v) ==
  ByValue(arg, LAMBDA s :
      [s EXCEPT !.m_peekToken.m_attribute = v])

lexTokenFloatExponentSet(arg, value) ==
  ByValue(arg, LAMBDA s1 :
      Return(setAttribute(s1, RatMul(value, powf10(s1.ret))), "PT_FLOAT"))

lexTokenFloatExponent(arg, value) ==
  ByValue(arg, LAMBDA s :
      lexTokenFloatExponentSet(lexReadInteger(s), value))

\* lexTokenFloat: after value is computed
lexTokenFloatEnd(arg, value) ==
  ByValue(arg, LAMBDA s1 :
      IF toLower(s1.m_peekChar) = "e"
      THEN lexTokenFloatExponent(nextChar(nextChar(s1)), value)
      ELSE Return(setAttribute(s1, value), "PT_FLOAT"))

\* lexTokenFloat: decimal = fraction / power and value, fraction being s1.ret
lexTokenFloatValue(arg, integer) ==
  ByValue(arg, LAMBDA s1 :
      lexTokenFloatEnd(s1,
        IF integer >= 0
        THEN RatAdd(RatOfInt(integer), Rat(s1.ret.integer, s1.ret.pow))
        ELSE RatSub(RatOfInt(integer), Rat(s1.ret.integer, s1.ret.pow))))

lexTokenFloat(arg, integer) ==
  ByValue(arg, LAMBDA s :
      lexTokenFloatValue(lexReadIntegerPower(s), integer))

\* lexTokenInteger: after integer = lexReadInteger()
lexTokenIntegerEnd(arg) ==
  ByValue(arg, LAMBDA s1 :
      IF s1.m_peekChar = "."
      THEN lexTokenFloat(nextChar(nextChar(s1)), s1.ret)
      ELSE Return(setAttribute(s1, RatOfInt(s1.ret)), "PT_INTEGER"))

lexTokenInteger(arg) ==
  ByValue(arg, LAMBDA s :
      lexTokenIntegerEnd(lexReadInteger(s)))

\* symResolve that takes the end of the input for the end of the tokens
symResolve_atEnd(arg, t) ==
  ByValue(arg, LAMBDA s :
      IF s.m_peekChar = EndOfFile THEN Return(s, "PT_EOF")
      ELSE IF \E e \in sg_reserved : e[1] = s.m_peekToken.m_lexicon
      THEN Return(s, (CHOOSE e \in sg_reserved : e[1] = s.m_peekToken.m_lexicon)[2])
      ELSE Return(s, t))

symResolve(arg, t) ==
  ByValue(arg, LAMBDA s :
      IF \E e \in sg_reserved : e[1] = s.m_peekToken.m_lexicon
      THEN Return(s, (CHOOSE e \in sg_reserved : e[1] = s.m_peekToken.m_lexicon)[2])
      ELSE Return(s, t))

\* the for loop of lexTokenIdentifier
RECURSIVE lexIdentifierLoop(_)
lexIdentifierAppend(arg) ==
  ByValue(arg, LAMBDA s1 :
      lexIdentifierLoop(
        [s1 EXCEPT !.m_peekToken.m_lexicon = ParseString_append(@, s1.ret)]))
lexIdentifierLoop(arg) ==
  ByValue(arg, LAMBDA s :
      IF isAlpha(s.m_peekChar) THEN lexIdentifierAppend(nextChar(s))
      ELSE symResolve(s, "PT_STRING"))

lexTokenIdentifier(arg) ==
  ByValue(arg, LAMBDA s :
      lexIdentifierLoop(
        [s EXCEPT !.m_peekToken.m_lexicon = ParseString_assign(@, s.m_currChar)]))

\* the tokens whose line lexToken skips
SkippedTokens == {"PT_GROUP", "PT_OBJECT", "PT_SMOOTHING", "PT_MATERIAL"}

\* ghost: the character just read may be the first of the token
markPos(arg) ==
  ByValue(arg, LAMBDA s :
      [s EXCEPT !.m_peekToken.pos = s.rpos - 1])

\* the for loop of lexToken, and the switch on the character nextChar returned
RECURSIVE lexTokenLoop(_)
\* the switch without the nextLine() of the case '#'
lexTokenSwitch_noSkip(arg) ==
  ByValue(arg, LAMBDA s1 :
      CASE s1.m_currChar = EndOfFile -> Return(s1, "PT_EOF")
        [] s1.m_currChar \in WHITESPACE -> lexTokenLoop(s1)
        [] s1.m_currChar \in {NEWLINE, "#"} -> Return(s1, "PT_ENDSTATEMENT")
        [] s1.m_currChar = "/" -> Return(s1, "PT_SEPARATOR")
        [] OTHER -> IF isNumeric(s1.m_currChar) THEN lexTokenInteger(s1)
                    ELSE IF isAlpha(s1.m_currChar) THEN lexTokenIdentifier(s1)
                    ELSE LEX_ERROR(s1))
lexTokenSwitch(arg) ==
  ByValue(arg, LAMBDA s1 :
      CASE s1.m_currChar = EndOfFile -> Return(s1, "PT_EOF")
        [] s1.m_currChar \in WHITESPACE -> lexTokenLoop(s1)
        [] s1.m_currChar = NEWLINE -> Return(s1, "PT_ENDSTATEMENT")
        [] s1.m_currChar = "#" -> Return(nextLine(s1), "PT_ENDSTATEMENT")
        [] s1.m_currChar = "/" -> Return(s1, "PT_SEPARATOR")
        [] OTHER -> IF isNumeric(s1.m_currChar) THEN lexTokenInteger(s1)
                    ELSE IF isAlpha(s1.m_currChar) THEN lexTokenIdentifier(s1)
                    ELSE LEX_ERROR(s1))
lexTokenLoop(arg) ==
  ByValue(arg, LAMBDA s :
      lexTokenSwitch(markPos(nextChar(s))))

\* lexToken without the switch on currToken()
lexToken_noSkip(arg) ==
  ByValue(arg, LAMBDA s :
      lexTokenLoop(s))

lexToken(arg) ==
  ByValue(arg, LAMBDA s :
      lexTokenLoop(IF s.m_currToken.m_token \in SkippedTokens THEN nextLine(s) ELSE s))

\* Token::swap
swapTokens(arg) ==
  ByValue(arg, LAMBDA s :
      [s EXCEPT !.m_currToken = s.m_peekToken, !.m_peekToken = s.m_currToken])

\* nextToken: return m_currToken; the token lexed joins the ghost lexed
nextTokenReturn(arg) ==
  ByValue(arg, LAMBDA s3 :
      [s3 EXCEPT !.lexed = Append(@, s3.m_peekToken), !.ret = s3.m_currToken.m_token])

\* nextToken: m_peekToken.m_token = the value lexToken returned
nextTokenSet(arg) ==
  ByValue(arg, LAMBDA s2 :
      IF ~Running(s2) THEN s2
      ELSE nextTokenReturn([s2 EXCEPT !.m_peekToken.m_token = s2.ret]))

nextToken(arg) ==
  ByValue(arg, LAMBDA s :
      IF ~Running(s) THEN s ELSE nextTokenSet(lexToken(swapTokens(s))))

\* expectToken: LEX_ERROR("Expected token %d, received %d!")
expectTokenCheck(arg, t) ==
  ByValue(arg, LAMBDA s1 :
      IF Running(s1) /\ s1.ret # t
      THEN [s1 EXCEPT !.pc = "aborted",
                      !.err = [expected |-> t, received |-> s1.m_currToken.m_token]]
      ELSE s1)

expectToken(arg, t) ==
  ByValue(arg, LAMBDA s :
      expectTokenCheck(nextToken(s), t))

checkToken(arg, t) ==
  ByValue(arg, LAMBDA s :
      IF s.m_peekToken.m_token = t THEN Return(nextToken(s), TRUE)
      ELSE Return(s, FALSE))

(***************************************************************************)
(* Parser                                                                  *)
(***************************************************************************)
\* parseFloat: f = nextToken().m_attribute, f being m_float4[i]
parseFloatStore(arg, i) ==
  ByValue(arg, LAMBDA s1 :
      IF ~Running(s1) THEN s1
      ELSE [s1 EXCEPT !.m_float4[i] = s1.m_currToken.m_attribute, !.ret = TRUE])

\* bool parseFloat(float &f), with f = m_float4[i]
parseFloat(arg, i) ==
  ByValue(arg, LAMBDA s :
      IF s.m_peekToken.m_token \in {"PT_FLOAT", "PT_INTEGER"}
      THEN parseFloatStore(nextToken(s), i)
      ELSE Return(s, FALSE))

\* if (!parseFloat(m_float4[i])) m_float4[i] = v
parseFloatDefault(arg, i, v) ==
  ByValue(arg, LAMBDA s :
      IF Running(s) /\ ~s.ret THEN [s EXCEPT !.m_float4[i] = v] ELSE s)

\* a call on m_parser; at is a ghost, the position of the statement's keyword
Call(arg, name, args, at) ==
  ByValue(arg, LAMBDA s :
      IF ~Running(s) THEN s
      ELSE [s EXCEPT !.sink = Append(@, [call |-> name, args |-> args, at |-> at])])

onVertex(arg, at) ==
  ByValue(arg, LAMBDA s :
      Call(s, "onVertex", s.m_float4, at))
onTexture(arg, at) ==
  ByValue(arg, LAMBDA s :
      Call(s, "onTexture", SubSeq(s.m_float4, 1, 3), at))
onNormal(arg, at) ==
  ByValue(arg, LAMBDA s :
      Call(s, "onNormal", SubSeq(s.m_float4, 1, 3), at))
onParameter(arg, at) ==
  ByValue(arg, LAMBDA s :
      Call(s, "onParameter", SubSeq(s.m_float4, 1, 3), at))
\* onFace with the array's size for the count: the failed last group included
onFace_size(arg, at) ==
  ByValue(arg, LAMBDA s :
      Call(s, "onFace",
           [indices |-> s.m_vector_index_array, count |-> Len(s.m_vector_index_array)],
           at))

onFace(arg, at) ==
  ByValue(arg, LAMBDA s :
      Call(s, "onFace",
           [indices |-> SubSeq(s.m_vector_index_array, 1, Len(s.m_vector_index_array) - 1),
            count |-> Len(s.m_vector_index_array) - 1],
           at))

\* parseVertex that takes the token ending the statement before its call
parseVertex_ahead(arg) ==
  ByValue(arg, LAMBDA s :
      onVertex(
        nextToken(parseFloatDefault(
          parseFloat(
            parseFloat(parseFloat(parseFloat([s EXCEPT !.m_vertexCount = @ + 1], 1), 2), 3),
            4),
          4, RatOfInt(1))),
        s.m_currToken.pos))

parseVertex(arg) ==
  ByValue(arg, LAMBDA s :
      onVertex(
        parseFloatDefault(
          parseFloat(
            parseFloat(parseFloat(parseFloat([s EXCEPT !.m_vertexCount = @ + 1], 1), 2), 3),
            4),
          4, RatOfInt(1)),
        s.m_currToken.pos))

parseTexture(arg) ==
  ByValue(arg, LAMBDA s :
      onTexture(
        parseFloatDefault(
          parseFloat(parseFloat(parseFloat([s EXCEPT !.m_textureCount = @ + 1], 1), 2), 3),
          3, RatOfInt(1)),
        s.m_currToken.pos))

parseNormal(arg) ==
  ByValue(arg, LAMBDA s :
      onNormal(
        parseFloat(parseFloat(parseFloat([s EXCEPT !.m_normalCount = @ + 1], 1), 2), 3),
        s.m_currToken.pos))

\* parseParameter: the if / else if on the second and the third field
parseParameterDefaults(arg) ==
  ByValue(arg, LAMBDA s2 :
      IF ~Running(s2) THEN s2
      ELSE IF ~s2.ret THEN [s2 EXCEPT !.m_float4[2] = RatOfInt(0)]
      ELSE parseFloatDefault(parseFloat(s2, 3), 3, RatOfInt(0)))

parseParameter(arg) ==
  ByValue(arg, LAMBDA s :
      onParameter(
        parseParameterDefaults(
          parseFloat(parseFloat([s EXCEPT !.m_parameterCount = @ + 1], 1), 2)),
        s.m_currToken.pos))

\* parseInteger: i = nextToken().m_attribute.asInteger, i being slot k of
\* m_vector_index_array.back()
parseIntegerStore(arg, k) ==
  ByValue(arg, LAMBDA s1 :
      IF ~Running(s1) THEN s1
      ELSE [s1 EXCEPT !.m_vector_index_array[Len(s1.m_vector_index_array)][k] =
                          s1.m_currToken.m_attribute.n,
                      !.ret = TRUE])

\* bool parseInteger(uint64_t &i)
parseInteger(arg, k) ==
  ByValue(arg, LAMBDA s :
      IF s.m_peekToken.m_token = "PT_INTEGER" THEN parseIntegerStore(nextToken(s), k)
      ELSE Return(s, FALSE))

\* indices[k] = v
setIndex(arg, k, v) ==
  ByValue(arg, LAMBDA s :
      IF ~Running(s) THEN s
      ELSE [s EXCEPT !.m_vector_index_array[Len(s.m_vector_index_array)][k] = v])

\* parseFaceIndices: if (!parseInteger(indices[k])) indices[k] = 0
parseFaceSlotDefault(arg, k) ==
  ByValue(arg, LAMBDA s2 :
      IF Running(s2) /\ ~s2.ret THEN setIndex(s2, k, 0) ELSE s2)

\* parseFaceIndices: the if / else on checkToken(PT_SEPARATOR)
parseFaceSlotChecked(arg, k) ==
  ByValue(arg, LAMBDA s1 :
      IF ~Running(s1) THEN s1
      ELSE IF s1.ret THEN parseFaceSlotDefault(parseInteger(s1, k), k)
      ELSE setIndex(s1, k, 0))

\* parseFaceIndices: one "subsequent index", into slot k
parseFaceSlot(arg, k) ==
  ByValue(arg, LAMBDA s :
      parseFaceSlotChecked(checkToken(s, "PT_SEPARATOR"), k))

\* parseFaceIndices: after parseInteger(indices[0])
parseFaceIndicesRest(arg) ==
  ByValue(arg, LAMBDA s1 :
      IF ~Running(s1) THEN s1
      ELSE IF ~s1.ret THEN Return(s1, FALSE)
      ELSE Return(parseFaceSlot(parseFaceSlot(s1, 2), 3), TRUE))

\* bool parseFaceIndices(index_type indices[3]), on m_vector_index_array.back()
parseFaceIndices(arg) ==
  ByValue(arg, LAMBDA s :
      parseFaceIndicesRest(parseInteger(s, 1)))

\* index_array(): a value-initialised std::array
index_array == <<0, 0, 0>>

\* the do-while loop of parseFace
RECURSIVE parseFaceLoop(_)
parseFaceWhile(arg) ==
  ByValue(arg, LAMBDA s1 :
      IF Running(s1) /\ s1.ret THEN parseFaceLoop(s1) ELSE s1)
parseFaceLoop(arg) ==
  ByValue(arg, LAMBDA s :
      parseFaceWhile(
        parseFaceIndices([s EXCEPT !.m_vector_index_array = Append(@, index_array)])))

parseFace(arg) ==
  ByValue(arg, LAMBDA s :
      onFace(parseFaceLoop([s EXCEPT !.m_vector_index_array = <<>>]), s.m_currToken.pos))

\* the switch without the case of PT_TEXTURE
parseSwitch_noTexture(arg) ==
  ByValue(arg, LAMBDA s1 :
      IF ~Running(s1) THEN s1
      ELSE CASE s1.ret = "PT_ERROR" -> [s1 EXCEPT !.pc = "aborted"]
             [] s1.ret = "PT_EOF" -> [s1 EXCEPT !.pc = "returned"]
             [] s1.ret = "PT_VERTEX" -> parseVertex(s1)
             [] s1.ret = "PT_NORMAL" -> parseNormal(s1)
             [] s1.ret = "PT_PARAMETER" -> parseParameter(s1)
             [] s1.ret = "PT_FACE" -> parseFace(s1)
             [] OTHER -> s1)

\* parse: the switch on the token nextToken returned
parseSwitch(arg) ==
  ByValue(arg, LAMBDA s1 :
      IF ~Running(s1) THEN s1
      ELSE CASE s1.ret = "PT_ERROR" -> [s1 EXCEPT !.pc = "aborted"]
             [] s1.ret = "PT_EOF" -> [s1 EXCEPT !.pc = "returned"]
             [] s1.ret = "PT_VERTEX" -> parseVertex(s1)
             [] s1.ret = "PT_TEXTURE" -> parseTexture(s1)
             [] s1.ret = "PT_NORMAL" -> parseNormal(s1)
             [] s1.ret = "PT_PARAMETER" -> parseParameter(s1)
             [] s1.ret = "PT_FACE" -> parseFace(s1)
             [] OTHER -> s1)

\* the body of the loop that neither takes the end-of-input token nor returns
parseStep_stay(arg) ==
  ByValue(arg, LAMBDA s :
      IF Running(nextToken(s)) /\ nextToken(s).ret = "PT_EOF" THEN s
      ELSE parseSwitch(nextToken(s)))

\* the body of the for loop of parse(): one token is dispatched
parseStep(arg) ==
  ByValue(arg, LAMBDA s :
      parseSwitch(nextToken(s)))

\* the members as the constructor's initialiser list leaves them. m_peekChar,
\* the float scratch buffer and the tokens' attributes are not initialised:
\* uninitChar and garbage are what they hold.
Members(d, text, uninitChar, garbage) ==
  [doc |-> d, uninit |-> [char |-> uninitChar, float |-> garbage],
   input |-> text, rpos |-> 0,
   m_currChar |-> uninitChar, m_peekChar |-> uninitChar,
   m_currToken |-> Token(garbage), m_peekToken |-> Token(garbage),
   m_currLineCount |-> 1, m_currCharCount |-> -1,
   m_vertexCount |-> 0, m_textureCount |-> 0, m_normalCount |-> 0,
   m_parameterCount |-> 0, m_faceCount |-> 0,
   m_float4 |-> <<garbage, garbage, garbage, garbage>>,
   m_vector_index_array |-> <<>>,
   sink |-> <<>>, lexed |-> <<>>, err |-> <<>>,
   pc |-> "parse", ret |-> FALSE]

\* KAbstractObjParserPrivate::KAbstractObjParserPrivate
Construct(d, text, uninitChar, garbage) ==
  nextToken(nextChar(Members(d, text, uninitChar, garbage)))

(***************************************************************************)
(* The texts the reader delivers.  A text is a sequence of lines; a line   *)
(* is its words, written with one space between them, then its comment     *)
(* (empty, or '#' and the comment's text), then its newline unless it is   *)
(* the last line of a text that ends without one.                          *)
(***************************************************************************)
Line(words, comment, nl) == [words |-> words, comment |-> comment, nl |-> nl]

RECURSIVE JoinWords(_)
JoinWords(ws) ==
  IF ws = <<>> THEN <<>>
  ELSE IF Len(ws) = 1 THEN ws[1]
  ELSE ws[1] \o <<" ">> \o JoinWords(Tail(ws))

RenderLine(l) ==
  JoinWords(l.words) \o l.comment \o (IF l.nl THEN <<NEWLINE>> ELSE <<>>)

RECURSIVE Render(_)
Render(d) == IF d = <<>> THEN <<>> ELSE RenderLine(d[1]) \o Render(Tail(d))

\* the sequences over S of length lo..hi
SeqsOf(S, lo, hi) == UNION {[1..k -> S] : k \in lo..hi}

(***************************************************************************)
(* The texts checked.  Four families, each a main line with every ending   *)
(* (newline, comment, end of input), after an optional earlier statement   *)
(* that leaves values in the scratch buffers:                              *)
(*   numeric literals of up to MaxIntDigits '.' MaxFracDigits digits;      *)
(*   v, vt, vn and vp statements of up to MaxFields fields;                *)
(*   f statements of up to MaxGroups index groups;                         *)
(*   directive, identifier and malformed lines, between other statements.  *)
(***************************************************************************)
MaxIntDigits == 2
MaxFracDigits == 2
MaxFields == 4
MaxGroups == 3

IntDigits == {"0", "1"}
FracDigits == {"0", "2", "5"}

IntLiterals == SeqsOf(IntDigits, 1, MaxIntDigits)
FloatLiterals ==
  {i \o <<".">> \o f : i \in IntLiterals, f \in SeqsOf(FracDigits, 1, MaxFracDigits)}

GeometryWords == {<<"v">>, <<"v", "t">>, <<"v", "n">>, <<"v", "p">>, <<"f">>}
SkipWords == {<<"g">>, <<"o">>, <<"s">>, <<"m", "t", "l", "l", "i", "b">>}
DirectiveWords == SkipWords \cup {<<"u", "s", "e", "m", "t", "l">>}

Comments == {<<"#", "v", " ", "1", "@">>, <<" ", "#">>}

\* how a main line ends: [comment, nl]
Endings ==
  {[comment |-> c, nl |-> n] : c \in {<<>>} \cup Comments, n \in BOOLEAN}

\* a statement before the main line: it fills every slot of a scratch buffer
StaleVertex == Line(<<<<"v">>, <<"7">>, <<"8">>, <<"3">>, <<"6">>>>, <<>>, TRUE)
StaleFace == Line(<<<<"f">>, <<"8", "/", "8", "/", "8">>, <<"8", "/", "8", "/", "8">>>>,
                  <<>>, TRUE)

\* statements after the main line
NextVertex == Line(<<<<"v">>, <<"1">>, <<"2">>, <<"3">>>>, <<>>, TRUE)
NextTexture == Line(<<<<"v", "t">>, <<"4">>, <<"5">>>>, <<>>, FALSE)

MainDocs(pres, bodies, posts) ==
  {pre \o <<Line(b, e.comment, e.nl \/ post # <<>>)>> \o post :
     pre \in pres, b \in bodies, e \in Endings, post \in posts}

\* literals with an exponent, without and with a decimal point
ExponentLiterals ==
  {<<"1", "e", "5">>, <<"2", "E", "-", "3">>, <<"1", "0", "e", "+", "2">>,
   <<"1", ".", "0", "e", "2">>, <<"2", ".", "0", "E", "-", "1">>,
   <<"1", ".", "0", "e", "+", "1">>, <<"1", ".", "5", "e", "1">>}

NumberDocs ==
  MainDocs({<<>>},
           {<<<<"v">>, l>> : l \in IntLiterals \cup FloatLiterals \cup ExponentLiterals},
           {<<>>})

FieldWords == {<<"3">>, <<"0", ".", "5">>}
FieldDocs ==
  MainDocs({<<>>, <<StaleVertex>>},
           {<<k>> \o fs : k \in GeometryWords \ {<<"f">>},
                          fs \in SeqsOf(FieldWords, 0, MaxFields)},
           {<<>>})

GroupWords == {<<"1">>, <<"2", "/", "3">>, <<"4", "/", "/", "5">>,
               <<"6", "/", "7", "/", "1">>, <<"9", "/">>}
FaceDocs ==
  MainDocs({<<>>, <<StaleFace>>},
           {<<<<"f">>>> \o gs : gs \in SeqsOf(GroupWords, 0, MaxGroups)},
           {<<>>})

\* what follows a directive word, and other lines that are no statement
Trailings == {<<>>, <<<<"a", "b">>, <<"c">>>>,
              <<<<"v">>, <<"1">>, <<"2">>, <<"3">>>>, <<<<"f">>, <<"1">>>>,
              <<<<"@">>>>}
OtherBodies ==
  {<<>>, <<<<"V">>, <<"1">>, <<"2">>, <<"3">>>>, <<<<"v", "x">>, <<"1">>>>,
   <<<<"V", "t">>, <<"2">>>>, <<<<"v">>, <<"1">>, <<"2">>, <<"3">>>>,
   <<<<"f">>, <<"1">>, <<"2">>>>, <<<<"v", "n">>, <<"1">>, <<"@">>>>, <<<<"@">>>>}
GeneralDocs ==
  MainDocs({<<>>, <<StaleVertex>>},
           {<<k>> \o tr : k \in DirectiveWords, tr \in Trailings} \cup OtherBodies,
           {<<>>, <<NextVertex>>, <<NextVertex, NextTexture>>})

\* the contents of uninitialised memory
\* (m_peekChar, and the floats of m_float4 and of the tokens' attributes): a
\* newline with zeroes, another character with other values
Uninits ==
  {[char |-> NEWLINE, float |-> RatOfInt(0)], [char |-> "x", float |-> RatOfInt(-77)]}

(***************************************************************************)
(* The state machine                                                       *)
(***************************************************************************)
State ==
  [doc |-> doc, uninit |-> uninit, input |-> input, rpos |-> rpos,
   m_currChar |-> m_currChar, m_peekChar |-> m_peekChar,
   m_currToken |-> m_currToken, m_peekToken |-> m_peekToken,
   m_currLineCount |-> m_currLineCount, m_currCharCount |-> m_currCharCount,
   m_vertexCount |-> m_vertexCount, m_textureCount |-> m_textureCount,
   m_normalCount |-> m_normalCount, m_parameterCount |-> m_parameterCount,
   m_faceCount |-> m_faceCount, m_float4 |-> m_float4,
   m_vector_index_array |-> m_vector_index_array,
   sink |-> sink, lexed |-> lexed, err |-> err, pc |-> pc, ret |-> FALSE]

Is(s) ==
  /\ doc = s.doc /\ uninit = s.uninit /\ input = s.input /\ rpos = s.rpos
  /\ m_currChar = s.m_currChar /\ m_peekChar = s.m_peekChar
  /\ m_currToken = s.m_currToken /\ m_peekToken = s.m_peekToken
  /\ m_currLineCount = s.m_currLineCount /\ m_currCharCount = s.m_currCharCount
  /\ m_vertexCount = s.m_vertexCount /\ m_textureCount = s.m_textureCount
  /\ m_normalCount = s.m_normalCount /\ m_parameterCount = s.m_parameterCount
  /\ m_faceCount = s.m_faceCount /\ m_float4 = s.m_float4
  /\ m_vector_index_array = s.m_vector_index_array
  /\ sink = s.sink /\ lexed = s.lexed /\ err = s.err /\ pc = s.pc

Becomes(s) ==
  /\ doc' = s.doc /\ uninit' = s.uninit /\ input' = s.input /\ rpos' = s.rpos
  /\ m_currChar' = s.m_currChar /\ m_peekChar' = s.m_peekChar
  /\ m_currToken' = s.m_currToken /\ m_peekToken' = s.m_peekToken
  /\ m_currLineCount' = s.m_currLineCount /\ m_currCharCount' = s.m_currCharCount
  /\ m_vertexCount' = s.m_vertexCount /\ m_textureCount' = s.m_textureCount
  /\ m_normalCount' = s.m_normalCount /\ m_parameterCount' = s.m_parameterCount
  /\ m_faceCount' = s.m_faceCount /\ m_float4' = s.m_float4
  /\ m_vector_index_array' = s.m_vector_index_array
  /\ sink' = s.sink /\ lexed' = s.lexed /\ err' = s.err /\ pc' = s.pc

\* the state after the constructor, for each text and each content of the
\* uninitialised members
InitOn(docs) ==
  \E d \in docs, u \in Uninits : Is(Construct(d, Render(d), u.char, u.float))

Init ==
  \/ InitOn(NumberDocs)
  \/ InitOn(FieldDocs)
  \/ InitOn(FaceDocs)
  \/ InitOn(GeneralDocs)

\* parse() requests a token, which lexes the token after it, and the token
\* requested is of kind t
Dispatches(arg, t) ==
  ByValue(arg, LAMBDA s1 :
      Running(s1) /\ s1.ret = t)

parseEndOfInput ==
  /\ pc = "parse"
  /\ Dispatches(nextToken(State), "PT_EOF")
  /\ Becomes(parseStep(State))

parseVertexStatement ==
  /\ pc = "parse"
  /\ Dispatches(nextToken(State), "PT_VERTEX")
  /\ Becomes(parseStep(State))

parseTextureStatement ==
  /\ pc = "parse"
  /\ Dispatches(nextToken(State), "PT_TEXTURE")
  /\ Becomes(parseStep(State))

parseNormalStatement ==
  /\ pc = "parse"
  /\ Dispatches(nextToken(State), "PT_NORMAL")
  /\ Becomes(parseStep(State))

parseParameterStatement ==
  /\ pc = "parse"
  /\ Dispatches(nextToken(State), "PT_PARAMETER")
  /\ Becomes(parseStep(State))

parseFaceStatement ==
  /\ pc = "parse"
  /\ Dispatches(nextToken(State), "PT_FACE")
  /\ Becomes(parseStep(State))

\* PT_ENDSTATEMENT and the tokens parse() has no case for; PT_ERROR is the case
\* of parse() that aborts
NoStatementTokens ==
  ParseToken \ {"PT_EOF", "PT_VERTEX", "PT_TEXTURE", "PT_NORMAL", "PT_PARAMETER",
                "PT_FACE"}

parseNoStatement ==
  /\ pc = "parse"
  /\ \E t \in NoStatementTokens : Dispatches(nextToken(State), t)
  /\ Becomes(parseStep(State))

\* the token parse() requests makes lexToken raise LEX_ERROR
parseLexError ==
  /\ pc = "parse"
  /\ ~Running(nextToken(State))
  /\ Becomes(parseStep(State))

Next ==
  \/ parseEndOfInput
  \/ parseVertexStatement
  \/ parseTextureStatement
  \/ parseNormalStatement
  \/ parseParameterStatement
  \/ parseFaceStatement
  \/ parseNoStatement
  \/ parseLexError

Spec == Init /\ [][Next]_vars

\* texts of every kind of line, each with every ending and before other
\* statements: the end of input is reached inside a comment, a directive line,
\* a literal, an identifier and a face statement
LiveBodies ==
  {<<>>,
   <<<<"g">>, <<"a", "b">>, <<"c">>>>,
   <<<<"m", "t", "l", "l", "i", "b">>>>,
   <<<<"u", "s", "e", "m", "t", "l">>, <<"a", "b">>>>,
   <<<<"@">>>>,
   <<<<"v", "n">>, <<"1">>, <<"@">>>>,
   <<<<"V">>, <<"1">>>>,
   <<<<"V">>, <<"@">>>>,
   <<<<"v">>, <<"1", ".", "5">>>>,
   <<<<"v">>, <<"1", ".", "0", "e", "2">>, <<"1", "e", "5">>>>,
   <<<<"v", "t">>, <<"4">>, <<"5">>>>,
   <<<<"v", "n">>, <<"1">>, <<"2">>, <<"3">>>>,
   <<<<"v", "p">>, <<"1">>>>,
   <<<<"f">>>>,
   <<<<"f">>, <<"9", "/">>>>,
   <<<<"f">>, <<"1">>, <<"2", "/", "3">>, <<"4", "/", "/", "5">>>>}

LiveDocs == MainDocs({<<>>}, LiveBodies, {<<>>, <<NextVertex, NextTexture>>})

LiveInit == InitOn(LiveDocs)

\* parse() runs to completion: the loop goes on while it can
LiveSpec == LiveInit /\ [][Next]_vars /\ WF_vars(Next)

(***************************************************************************)
(* Numeric-literal lexing on its own: lexTokenInteger applied to the text  *)
(* of a literal, optional sign included, as lexToken applies it once the   *)
(* first character of the literal is the current character.                *)
(***************************************************************************)
Signs == {<<>>, <<"-">>, <<"+">>}

SignedLiterals ==
  {sg \o l : sg \in Signs, l \in IntLiterals \cup FloatLiterals}

\* the constructor's nextChar(), then the nextChar() of lexToken's loop
lexLiteralStart(text, uninitChar, garbage) ==
  markPos(nextChar(nextChar(
    Members(<<Line(<<text>>, <<>>, FALSE)>>, text, uninitChar, garbage))))

\* nextToken: m_peekToken.m_token = the value returned for the literal
lexLiteralEnd(arg) ==
  ByValue(arg, LAMBDA s1 :
      [s1 EXCEPT !.m_peekToken.m_token = s1.ret, !.pc = "lexed"])

lexLiteral(arg) ==
  ByValue(arg, LAMBDA s :
      lexLiteralEnd(lexTokenInteger(s)))

LexInit ==
  \E l \in SignedLiterals, u \in Uninits :
    Is([lexLiteralStart(l, u.char, u.float) EXCEPT !.pc = "lex"])

lexNumericLiteral ==
  /\ pc = "lex"
  /\ Becomes(lexLiteral([State EXCEPT !.pc = "parse"]))

LexNext == lexNumericLiteral

LexSpec == LexInit /\ [][LexNext]_vars

(***************************************************************************)
(* What the text says, read off doc without the lexer: where lines and     *)
(* words start, the value a numeric literal denotes, the index triple an   *)
(* index group denotes.                                                    *)
(***************************************************************************)
RECURSIVE LineStart(_, _)
LineStart(d, i) ==
  IF i = 1 THEN 1 ELSE LineStart(d, i - 1) + Len(RenderLine(d[i - 1]))

LineEnd(d, i) == LineStart(d, i) + Len(RenderLine(d[i])) - 1

RECURSIVE WordStart(_, _, _)
WordStart(d, i, j) ==
  IF j = 1 THEN LineStart(d, i)
  ELSE WordStart(d, i, j - 1) + Len(d[i].words[j - 1]) + 1

\* the position after the last word of line i: where its comment or newline is
WordsEnd(d, i) == LineStart(d, i) + Len(JoinWords(d[i].words))

HeadWord(l) == IF l.words = <<>> THEN <<>> ELSE l.words[1]
Fields(l) == IF l.words = <<>> THEN <<>> ELSE Tail(l.words)

DigitValue ==
  ("0" :> 0) @@ ("1" :> 1) @@ ("2" :> 2) @@ ("3" :> 3) @@ ("4" :> 4) @@
  ("5" :> 5) @@ ("6" :> 6) @@ ("7" :> 7) @@ ("8" :> 8) @@ ("9" :> 9)

IsDigits(w) == w # <<>> /\ \A k \in 1..Len(w) : w[k] \in DOMAIN DigitValue

RECURSIVE DecimalValue(_)
DecimalValue(w) ==
  IF w = <<>> THEN 0
  ELSE 10 * DecimalValue(SubSeq(w, 1, Len(w) - 1)) + DigitValue[w[Len(w)]]

\* the first position of character c in w, Len(w) + 1 when there is none
RECURSIVE FirstOf(_, _)
FirstOf(w, c) ==
  IF w = <<>> \/ w[1] = c THEN 1 ELSE 1 + FirstOf(Tail(w), c)

Before(w, c) == SubSeq(w, 1, FirstOf(w, c) - 1)
After(w, c) == SubSeq(w, FirstOf(w, c) + 1, Len(w))

\* integer digits, '.', fractional digits
IsDecimal(w) == IsDigits(Before(w, ".")) /\ IsDigits(After(w, "."))
IsNumber(w) == IsDigits(w) \/ IsDecimal(w)

\* I + F / 10^k for I '.' F with k fractional digits; I for the digits I
LiteralValue(w) ==
  IF IsDigits(w) THEN RatOfInt(DecimalValue(w))
  ELSE Rat(DecimalValue(Before(w, ".")) * Pow10(Len(After(w, ".")))
             + DecimalValue(After(w, ".")),
           Pow10(Len(After(w, "."))))

\* the triple of an index group v, v/t, v//n, v/t/n, v/, ...: 0 for a slot
\* that is not written
GroupTriple(w) ==
  <<DecimalValue(Before(w, "/")),
    DecimalValue(Before(After(w, "/"), "/")),
    DecimalValue(Before(After(After(w, "/"), "/"), "/"))>>

CallOf(w) ==
  CASE w = <<"v">> -> "onVertex"
    [] w = <<"v", "t">> -> "onTexture"
    [] w = <<"v", "n">> -> "onNormal"
    [] w = <<"v", "p">> -> "onParameter"
    [] w = <<"f">> -> "onFace"
    [] OTHER -> "none"

Lines == 1..Len(doc)

\* the calls made for the statement whose keyword is at position p
CallsAt(p) == SelectSeq(sink, LAMBDA e : e.at = p)

\* the calls made for text of line i
CallsOfLine(i) ==
  SelectSeq(sink, LAMBDA e : LineStart(doc, i) <= e.at /\ e.at <= LineEnd(doc, i))

\* the tokens lexed whose first character is at a position of lo..hi
TokensIn(lo, hi) == SelectSeq(lexed, LAMBDA tk : lo <= tk.pos /\ tk.pos <= hi)

\* the tokens lexed whose first character is at position p
TokensAt(p) == SelectSeq(lexed, LAMBDA tk : tk.pos = p)

\* the parse of a text to its end, the uninitialised members as in this run
RECURSIVE RunFrom(_)
RunFrom(arg) ==
  ByValue(arg, LAMBDA s :
      IF Running(s) THEN RunFrom(parseStep(s)) ELSE s)
RunOf(d) == RunFrom(Construct(d, Render(d), uninit.char, uninit.float))

\* a call without the ghost position, a token without the ghost position
CallView(e) == [call |-> e.call, args |-> e.args]
CallViews(calls) == [k \in 1..Len(calls) |-> CallView(calls[k])]
TokenView(tk) ==
  [m_token |-> tk.m_token,
   value |-> IF tk.m_token \in {"PT_INTEGER", "PT_FLOAT"} THEN tk.m_attribute
             ELSE RatOfInt(0),
   text |-> IF tk.m_token \in {"PT_INTEGER", "PT_FLOAT", "PT_EOF", "PT_ENDSTATEMENT",
                                "PT_SEPARATOR", "PT_ERROR"}
            THEN <<>> ELSE tk.m_lexicon]
TokenViews(tks) == [k \in 1..Len(tks) |-> TokenView(tks[k])]

Finished == pc # "parse"

(***************************************************************************)
(* C1.  A line that begins with g, o, s, mtllib or usemtl makes no call on *)
(* the sink and does not abort the parse, whatever follows the keyword on  *)
(* the line.                                                               *)
(***************************************************************************)
C1_DirectiveLinesAreSilent ==
  \A i \in Lines :
    HeadWord(doc[i]) \in DirectiveWords =>
      /\ CallsOfLine(i) = <<>>
      /\ pc = "aborted" => ~(LineStart(doc, i) <= err.pos /\ err.pos <= LineEnd(doc, i))

(***************************************************************************)
(* C2.  The count of onFace is the number of index groups of the line, the *)
(* triples are the groups' in order, a slot not written is 0.              *)
(***************************************************************************)
IsFaceLine(l) == HeadWord(l) = <<"f">> /\ \A k \in 1..Len(Fields(l)) : Fields(l)[k] \in GroupWords

FaceArgs(l) ==
  [indices |-> [k \in 1..Len(Fields(l)) |-> GroupTriple(Fields(l)[k])],
   count |-> Len(Fields(l))]

MergedGroups(l) ==
  \E k \in 1..(Len(Fields(l)) - 1) : Fields(l)[k][Len(Fields(l)[k])] = "/"

C3_FractionDividedByTenToTheDigits ==
  \A i \in Lines : \A j \in 1..Len(doc[i].words) :
    IsDecimal(doc[i].words[j]) =>
      \A k \in 1..Len(TokensAt(WordStart(doc, i, j))) :
        /\ TokensAt(WordStart(doc, i, j))[k].m_token = "PT_FLOAT"
        /\ TokensAt(WordStart(doc, i, j))[k].m_attribute = LiteralValue(doc[i].words[j])

(***************************************************************************)
(* C4.  A v statement of exactly three numeric fields makes exactly one    *)
(* onVertex call, of the three fields in order and 1.0; a fourth field is  *)
(* passed as written.                                                      *)
(***************************************************************************)
IsFloatsLine(l, word, counts) ==
  /\ HeadWord(l) = word
  /\ Len(Fields(l)) \in counts
  /\ \A k \in 1..Len(Fields(l)) : IsNumber(Fields(l)[k])

FieldValues(l) == [k \in 1..Len(Fields(l)) |-> LiteralValue(Fields(l)[k])]

\* the calls for line i are calls of name with args, one call once parse() returned
DeliversOnce(i, name, args) ==
  /\ \A k \in 1..Len(CallsAt(LineStart(doc, i))) :
       CallView(CallsAt(LineStart(doc, i))[k]) = [call |-> name, args |-> args]
  /\ pc = "returned" => Len(CallsAt(LineStart(doc, i))) = 1

VertexArgs(l) ==
  IF Len(Fields(l)) = 3 THEN FieldValues(l) \o <<RatOfInt(1)>> ELSE FieldValues(l)

C4_VertexOfThreeFields ==
  \A i \in Lines :
    IsFloatsLine(doc[i], <<"v">>, {3, 4}) =>
      DeliversOnce(i, "onVertex", VertexArgs(doc[i]))

\* C4 for the statements whose fields are all integer literals
C4_VertexOfThreeIntegers ==
  \A i \in Lines :
    /\ IsFloatsLine(doc[i], <<"v">>, {3, 4})
    /\ \A k \in 1..Len(Fields(doc[i])) : IsDigits(Fields(doc[i])[k])
    => DeliversOnce(i, "onVertex", VertexArgs(doc[i]))

(***************************************************************************)
(* C5.  A vt statement of exactly two numeric fields makes exactly one     *)
(* onTexture call, of the two fields in order and 1.0.                     *)
(***************************************************************************)
C5_TextureOfTwoFields ==
  \A i \in Lines :
    IsFloatsLine(doc[i], <<"v", "t">>, {2}) =>
      DeliversOnce(i, "onTexture", FieldValues(doc[i]) \o <<RatOfInt(1)>>)

\* C5 for the statements whose fields are all integer literals
C5_TextureOfTwoIntegers ==
  \A i \in Lines :
    /\ IsFloatsLine(doc[i], <<"v", "t">>, {2})
    /\ \A k \in 1..Len(Fields(doc[i])) : IsDigits(Fields(doc[i])[k])
    => DeliversOnce(i, "onTexture", FieldValues(doc[i]) \o <<RatOfInt(1)>>)

(***************************************************************************)
(* C6.  A token that begins with a letter holds the maximal run of letters *)
(* at its position as its text, built anew for the token; its kind is the  *)
(* keyword's if the run is one of the ten reserved words exactly, else     *)
(* PT_STRING; no other token has such a kind. A line of an identifier that *)
(* is no reserved word, followed by numbers, makes no call.                *)
(***************************************************************************)
Letters == LowerCase \cup UpperCase

RECURSIVE LetterRun(_, _)
LetterRun(text, p) ==
  IF p <= Len(text) /\ text[p] \in Letters
  THEN <<text[p]>> \o LetterRun(text, p + 1) ELSE <<>>

KeywordKind(run) ==
  CASE run = <<"v">> -> "PT_VERTEX"
    [] run = <<"v", "t">> -> "PT_TEXTURE"
    [] run = <<"v", "n">> -> "PT_NORMAL"
    [] run = <<"v", "p">> -> "PT_PARAMETER"
    [] run = <<"f">> -> "PT_FACE"
    [] run = <<"o">> -> "PT_OBJECT"
    [] run = <<"g">> -> "PT_GROUP"
    [] run = <<"m", "t", "l", "l", "i", "b">> -> "PT_MATERIAL"
    [] run = <<"u", "s", "e", "m", "t", "l">> -> "PT_USEMATERIAL"
    [] run = <<"s">> -> "PT_SMOOTHING"
    [] OTHER -> "PT_STRING"

WordKinds ==
  {"PT_VERTEX", "PT_TEXTURE", "PT_NORMAL", "PT_PARAMETER", "PT_FACE", "PT_OBJECT",
   "PT_GROUP", "PT_MATERIAL", "PT_USEMATERIAL", "PT_SMOOTHING", "PT_STRING"}

BeginsWithLetter(tk) == tk.pos \in 1..Len(input) /\ input[tk.pos] \in Letters

IsIdentifierLine(l) ==
  /\ l.words # <<>>
  /\ \A k \in 1..Len(HeadWord(l)) : HeadWord(l)[k] \in Letters
  /\ KeywordKind(HeadWord(l)) = "PT_STRING"
  /\ \A k \in 1..Len(Fields(l)) : IsNumber(Fields(l)[k])

C6_KeywordsAreExactWords ==
  /\ \A k \in 1..Len(lexed) :
       IF BeginsWithLetter(lexed[k])
       THEN /\ lexed[k].m_lexicon = LetterRun(input, lexed[k].pos)
            /\ lexed[k].m_token = KeywordKind(LetterRun(input, lexed[k].pos))
       ELSE lexed[k].m_token \notin WordKinds
  /\ \A i \in Lines : IsIdentifierLine(doc[i]) => CallsOfLine(i) = <<>>

C6_Witness ==
  /\ pc = "returned"
  /\ Len(doc) = 3
  /\ doc[1] = StaleVertex
  /\ doc[2].words = <<<<"V">>, <<"1">>, <<"2">>, <<"3">>>>
  /\ doc[2].comment = <<>>
  /\ \E k \in 1..Len(lexed) :
       lexed[k].m_token = "PT_STRING" /\ lexed[k].m_lexicon = <<"V">>
  /\ Len(sink) = 2
  /\ CallsOfLine(2) = <<>>

(***************************************************************************)
(* C7.  parse() returns true only with PT_EOF the current token, and by    *)
(* then each v, vt, vn, vp and f statement of the text has had exactly one *)
(* call, of its kind, the calls in the order of the statements.            *)
(***************************************************************************)
IsStatement(l) == HeadWord(l) \in GeometryWords

StatementLines == {i \in Lines : IsStatement(doc[i])}

\* the statements of lines 1..n in order, each with its call and its position
RECURSIVE StatementsTo(_)
StatementsTo(n) ==
  IF n = 0 THEN <<>>
  ELSE StatementsTo(n - 1) \o
       (IF IsStatement(doc[n])
        THEN <<[call |-> CallOf(HeadWord(doc[n])), at |-> LineStart(doc, n)]>>
        ELSE <<>>)

\* the calls made for the statements, in the order they were made
StatementCalls ==
  SelectSeq([k \in 1..Len(sink) |-> [call |-> sink[k].call, at |-> sink[k].at]],
            LAMBDA e : \E i \in StatementLines : e.at = LineStart(doc, i))

C7_ReturnsAfterEveryStatement ==
  pc = "returned" =>
    /\ m_currToken.m_token = "PT_EOF"
    /\ StatementCalls = StatementsTo(Len(doc))

C7_Witness ==
  /\ pc = "returned"
  /\ Len(doc) = 4
  /\ HeadWord(doc[2]) = <<"f">>
  /\ Len(StatementsTo(Len(doc))) = 4
  /\ Len(sink) = 4

(***************************************************************************)
(* C8.  A text that ends right after a digit or a letter is lexed and      *)
(* parsed as the text with a newline appended is: the same tokens but for  *)
(* that newline's, every token past the end a PT_EOF, the same calls, the  *)
(* same outcome; parse() aborts only for a character of the text that is   *)
(* neither digit nor letter.                                               *)
(***************************************************************************)
LastLine == doc[Len(doc)]

EndsInsideToken ==
  /\ doc # <<>>
  /\ ~LastLine.nl
  /\ LastLine.comment = <<>>
  /\ input # <<>>
  /\ input[Len(input)] \in Letters \cup DOMAIN DigitValue

WithNewline(d) == [d EXCEPT ![Len(d)].nl = TRUE]

\* tks without the token of the newline at position p
WithoutNewlineAt(tks, p) ==
  SelectSeq(tks, LAMBDA tk : ~(tk.pos = p /\ tk.m_token = "PT_ENDSTATEMENT"))

C8_EndOfInputEndsTheToken ==
  Finished /\ EndsInsideToken =>
    /\ pc = RunOf(WithNewline(doc)).pc
    /\ sink = RunOf(WithNewline(doc)).sink
    /\ TokenViews(lexed) =
         TokenViews(WithoutNewlineAt(RunOf(WithNewline(doc)).lexed, Len(input) + 1))
    /\ \A k \in 1..Len(lexed) : lexed[k].pos > Len(input) => lexed[k].m_token = "PT_EOF"
    /\ pc = "aborted" =>
         /\ err.pos \in 1..Len(input)
         /\ input[err.pos] = err.char
         /\ err.char \notin Letters \cup DOMAIN DigitValue

C8_Witness ==
  /\ pc = "returned"
  /\ EndsInsideToken
  /\ Len(doc) = 1
  /\ doc[1].words = <<<<"v", "n">>>>
  /\ Len(sink) = 1
  /\ sink[1].call = "onNormal"

(***************************************************************************)
(* C9.  A '#' makes the lexer discard the text up to and including the     *)
(* newline, or up to the end of the input, and return one PT_ENDSTATEMENT: *)
(* the text is lexed and parsed as the text with a newline for each        *)
(* comment is.                                                             *)
(***************************************************************************)
HasComment(l) == l.comment # <<>>

HashPos(d, i) == WordsEnd(d, i) + FirstOf(d[i].comment, "#") - 1

OneEndStatementFor(i) ==
  /\ Len(TokensIn(HashPos(doc, i), LineEnd(doc, i))) = 1
  /\ TokensIn(HashPos(doc, i), LineEnd(doc, i))[1].pos = HashPos(doc, i)
  /\ TokensIn(HashPos(doc, i), LineEnd(doc, i))[1].m_token = "PT_ENDSTATEMENT"

Uncommented(d) ==
  [i \in 1..Len(d) |-> IF HasComment(d[i]) THEN Line(d[i].words, <<>>, TRUE) ELSE d[i]]

CommentIsNewline ==
  Finished =>
    /\ pc = RunOf(Uncommented(doc)).pc
    /\ CallViews(sink) = CallViews(RunOf(Uncommented(doc)).sink)
    /\ TokenViews(lexed) = TokenViews(RunOf(Uncommented(doc)).lexed)

\* as claimed: for a '#' at any point of a line
C9_CommentAnywhere ==
  /\ CommentIsNewline
  /\ pc = "returned" => \A i \in Lines : HasComment(doc[i]) => OneEndStatementFor(i)

\* the line has a word g, o, s or mtllib: lexToken skips what follows the word
InSkippedText(l) == \E k \in 1..Len(l.words) : l.words[k] \in SkipWords

\* as amended: for a '#' that is not in the text lexToken skips after g, o, s
\* or mtllib (there the '#' is discarded with the text and no token is returned)
C9_CommentOutsideSkippedText ==
  /\ CommentIsNewline
  /\ pc = "returned" =>
       \A i \in Lines :
         HasComment(doc[i]) /\ ~InSkippedText(doc[i]) => OneEndStatementFor(i)

C9_Witness ==
  /\ pc = "returned"
  /\ Len(doc) = 3
  /\ doc[2] = Line(<<<<"v">>, <<"1">>, <<"2">>, <<"3">>>>, <<"#", "v", " ", "1", "@">>, TRUE)
  /\ OneEndStatementFor(2)
  /\ Len(sink) = 3
  /\ CallViews(sink)[2] = CallViews(sink)[3]

(***************************************************************************)
(* C10.  After a line that begins with g, o, s or mtllib the calls are     *)
(* those of the text without the line: nothing of the line after its       *)
(* keyword is lexed, and the line after it is lexed from its first         *)
(* character.                                                              *)
(***************************************************************************)
Without(d, i) == SubSeq(d, 1, i - 1) \o SubSeq(d, i + 1, Len(d))

C10_SkippedLineIsAsAbsent ==
  \A i \in Lines :
    HeadWord(doc[i]) \in SkipWords =>
      /\ TokensIn(LineStart(doc, i) + 1, LineEnd(doc, i)) = <<>>
      /\ Finished =>
           /\ pc = RunOf(Without(doc, i)).pc
           /\ CallViews(sink) = CallViews(RunOf(Without(doc, i)).sink)
      /\ pc = "returned" /\ i < Len(doc) => TokensAt(LineStart(doc, i + 1)) # <<>>

C10_Witness ==
  /\ pc = "returned"
  /\ Len(doc) = 3
  /\ doc[1] = Line(<<<<"g">>, <<"v">>, <<"1">>, <<"2">>, <<"3">>>>, <<>>, TRUE)
  /\ Len(sink) = 2
  /\ sink[1].at = LineStart(doc, 2)

(***************************************************************************)
(* C11.  Each of the five statistics counters equals the number of         *)
(* statements of its kind parsed so far: of calls of its kind made so far, *)
(* every statement rule ending with its call.                              *)
(***************************************************************************)
CallsNamed(name) == Len(SelectSeq(sink, LAMBDA e : e.call = name))

C11_CountersCountStatements ==
  pc # "aborted" =>
    /\ m_vertexCount = CallsNamed("onVertex")
    /\ m_textureCount = CallsNamed("onTexture")
    /\ m_normalCount = CallsNamed("onNormal")
    /\ m_parameterCount = CallsNamed("onParameter")
    /\ m_faceCount = CallsNamed("onFace")

\* C11 for the four counters other than the face counter
C11_CountersButFaces ==
  pc # "aborted" =>
    /\ m_vertexCount = CallsNamed("onVertex")
    /\ m_textureCount = CallsNamed("onTexture")
    /\ m_normalCount = CallsNamed("onNormal")
    /\ m_parameterCount = CallsNamed("onParameter")

(***************************************************************************)
(* C12.  A vp statement of one field u makes the call onParameter(u, 0,    *)
(* 0), of two fields u v the call onParameter(u, v, 0), of three fields    *)
(* the call of the three fields.                                           *)
(***************************************************************************)
ParameterArgs(l) ==
  [k \in 1..3 |-> IF k <= Len(Fields(l)) THEN FieldValues(l)[k] ELSE RatOfInt(0)]

C12_ParameterDefaults ==
  \A i \in Lines :
    IsFloatsLine(doc[i], <<"v", "p">>, {1, 2, 3}) =>
      DeliversOnce(i, "onParameter", ParameterArgs(doc[i]))

\* C12 for the statements whose fields are all integer literals
C12_ParameterOfIntegers ==
  \A i \in Lines :
    /\ IsFloatsLine(doc[i], <<"v", "p">>, {1, 2, 3})
    /\ \A k \in 1..Len(Fields(doc[i])) : IsDigits(Fields(doc[i])[k])
    => DeliversOnce(i, "onParameter", ParameterArgs(doc[i]))

\* C12 for the statements of two or three integer fields
C12_ParameterOfTwoOrThreeIntegers ==
  \A i \in Lines :
    /\ IsFloatsLine(doc[i], <<"v", "p">>, {2, 3})
    /\ \A k \in 1..Len(Fields(doc[i])) : IsDigits(Fields(doc[i])[k])
    => DeliversOnce(i, "onParameter", ParameterArgs(doc[i]))

(***************************************************************************)
(* C13.  A vn statement of fewer than three numeric fields makes no        *)
(* onNormal call and ends the parse with an error.                         *)
(***************************************************************************)
C13_NormalNeedsThreeFields ==
  \A i \in Lines :
    IsFloatsLine(doc[i], <<"v", "n">>, {0, 1, 2}) =>
      /\ CallsAt(LineStart(doc, i)) = <<>>
      /\ pc # "returned"

\* C13 for the statements of three integer fields: the call is of the fields
C13_NormalOfThreeIntegers ==
  \A i \in Lines :
    /\ IsFloatsLine(doc[i], <<"v", "n">>, {3})
    /\ \A k \in 1..Len(Fields(doc[i])) : IsDigits(Fields(doc[i])[k])
    => DeliversOnce(i, "onNormal", FieldValues(doc[i]))

(***************************************************************************)
(* C14.  Every onFace call carries at least one index triple.              *)
(***************************************************************************)
C14_FaceHasATriple ==
  \A k \in 1..Len(sink) :
    sink[k].call = "onFace" =>
      /\ sink[k].args.count >= 1
      /\ Len(sink[k].args.indices) = sink[k].args.count

(***************************************************************************)
(* C15.  Digits directly followed by 'e' or 'E' and a signed exponent are  *)
(* lexed as one float literal token, of the value of the digits times ten  *)
(* to the exponent; no other token begins inside the literal.              *)
(***************************************************************************)
EPos(w) ==
  IF FirstOf(w, "e") < FirstOf(w, "E") THEN FirstOf(w, "e") ELSE FirstOf(w, "E")

Mantissa(w) == SubSeq(w, 1, EPos(w) - 1)
ExponentText(w) == SubSeq(w, EPos(w) + 1, Len(w))

IsSignedDigits(x) ==
  x # <<>> /\ IsDigits(IF x[1] \in {"-", "+"} THEN Tail(x) ELSE x)

SignedValue(x) ==
  IF x[1] = "-" THEN 0 - DecimalValue(Tail(x))
  ELSE IF x[1] = "+" THEN DecimalValue(Tail(x))
  ELSE DecimalValue(x)

\* mantissa, 'e' or 'E', exponent
HasExponent(w) == EPos(w) <= Len(w) /\ IsSignedDigits(ExponentText(w))

ExponentValue(w) ==
  RatMul(LiteralValue(Mantissa(w)), powf10(SignedValue(ExponentText(w))))

\* the word j of line i is lexed as one float literal of value v
OneFloatToken(i, j, v) ==
  /\ \A k \in 1..Len(TokensAt(WordStart(doc, i, j))) :
       /\ TokensAt(WordStart(doc, i, j))[k].m_token = "PT_FLOAT"
       /\ TokensAt(WordStart(doc, i, j))[k].m_attribute = v
  /\ TokensIn(WordStart(doc, i, j) + 1,
              WordStart(doc, i, j) + Len(doc[i].words[j]) - 1) = <<>>
  /\ pc # "aborted"

C15_ExponentWithoutPoint ==
  \A i \in Lines : \A j \in 1..Len(doc[i].words) :
    HasExponent(doc[i].words[j]) /\ IsDigits(Mantissa(doc[i].words[j])) =>
      OneFloatToken(i, j, ExponentValue(doc[i].words[j]))

\* the literals with a decimal point, a fraction of value 0 and an exponent
C15_ExponentAfterPoint ==
  \A i \in Lines : \A j \in 1..Len(doc[i].words) :
    /\ HasExponent(doc[i].words[j])
    /\ IsDecimal(Mantissa(doc[i].words[j]))
    /\ DecimalValue(After(Mantissa(doc[i].words[j]), ".")) = 0
    => OneFloatToken(i, j, ExponentValue(doc[i].words[j]))

(***************************************************************************)
(* C16.  A literal with a leading '-' is lexed as a token of the kind of   *)
(* the literal without the sign and of the negated value.                  *)
(***************************************************************************)
\* the token lexed for the text, the uninitialised members as in this run
LexOf(text) == lexLiteral(lexLiteralStart(text, uninit.char, uninit.float)).m_peekToken

RatNeg(a) == [n |-> 0 - a.n, d |-> a.d]

NegatesUnsigned ==
  /\ m_peekToken.m_token = LexOf(Tail(input)).m_token
  /\ m_peekToken.m_attribute = RatNeg(LexOf(Tail(input)).m_attribute)

C16_SignOfNonZeroIntegerPart ==
  /\ pc = "lexed"
  /\ input[1] = "-"
  /\ (IsDecimal(Tail(input)) => DecimalValue(Before(Tail(input), ".")) # 0)
  => NegatesUnsigned

(***************************************************************************)
(* C17.  parse() stops before the end of the text only by the lexical      *)
(* error, raised for a character of the text that no token begins with,    *)
(* outside comments and skipped directive lines; it then has aborted, and  *)
(* every call made was for a statement before the character. It returns    *)
(* only with the end of input read. PT_ERROR is never a token lexed, and   *)
(* so never the current token of the dispatch loop.                        *)
(***************************************************************************)
TokenStarts ==
  Letters \cup DOMAIN DigitValue \cup WHITESPACE \cup {NEWLINE, "#", "/"}

LineOf(p) == CHOOSE i \in Lines : LineStart(doc, i) <= p /\ p <= LineEnd(doc, i)

\* position p is neither in a comment nor after a g, o, s or mtllib keyword
OutsideSkippedText(p) ==
  /\ HasComment(doc[LineOf(p)]) => p < HashPos(doc, LineOf(p))
  /\ HeadWord(doc[LineOf(p)]) \notin SkipWords

IsLexicalError ==
  /\ DOMAIN err = {"line", "column", "char", "pos"}
  /\ err.pos \in 1..Len(input)
  /\ input[err.pos] = err.char
  /\ err.char \notin TokenStarts
  /\ OutsideSkippedText(err.pos)
  /\ \A k \in 1..Len(sink) : sink[k].at < err.pos

C17_OnlyTheLexicalErrorStops ==
  /\ (err # <<>>) <=> (pc = "aborted")
  /\ pc = "aborted" => IsLexicalError
  /\ pc = "returned" => m_currToken.m_token = "PT_EOF" /\ rpos > Len(input)
  /\ pc = "parse" => m_peekToken.m_token # "PT_ERROR"
  /\ \A k \in 1..Len(lexed) : lexed[k].m_token # "PT_ERROR"

C17_Witness ==
  /\ pc = "aborted"
  /\ Len(doc) = 2
  /\ doc[1] = StaleVertex
  /\ doc[2].words = <<<<"v", "n">>, <<"1">>, <<"@">>>>
  /\ err.char = "@"
  /\ err.line = 2
  /\ Len(sink) = 1

(***************************************************************************)
(* C18.  The line counter is 1 plus the number of newlines consumed, the   *)
(* column counter the number of characters consumed since the last         *)
(* newline; the position of a lexical error is the line and column of the  *)
(* character.  The character consumed last is the one before the           *)
(* lookahead character, which is the last one read.                        *)
(***************************************************************************)
Consumed == IF rpos - 1 <= Len(input) THEN rpos - 1 ELSE Len(input)

NewlinesTo(p) == Cardinality({q \in 1..p : input[q] = NEWLINE})

\* the number of characters of 1..p after the last newline of 1..p
ColumnOf(p) ==
  Cardinality({q \in 1..p : \A r \in q..p : input[r] # NEWLINE})

CountersAreRight ==
  /\ m_currLineCount = 1 + NewlinesTo(Consumed)
  /\ rpos - 1 <= Len(input) => m_currCharCount = ColumnOf(Consumed)
  /\ pc = "aborted" =>
       /\ err.line = 1 + NewlinesTo(err.pos)
       /\ err.column = ColumnOf(err.pos)

C18_LineAndColumnCounters == CountersAreRight

\* C18 while the text has not been read to its end, when the uninitialised
\* lookahead character of the constructor is no newline
C18_CountersWithinTheText ==
  uninit.char # NEWLINE /\ rpos - 1 <= Len(input) => CountersAreRight

\* C18 when the uninitialised lookahead character is no newline
C18_CountersAfterConstruction ==
  uninit.char # NEWLINE => CountersAreRight

(***************************************************************************)
(* C19.  parse() eventually returns true or aborts, for every text.        *)
(***************************************************************************)
C19_ParseEnds == <>(pc # "parse")

\* end of input inside a face statement
C19_Witness ==
  /\ pc = "returned"
  /\ Len(doc) = 1
  /\ HeadWord(doc[1]) = <<"f">>
  /\ Len(Fields(doc[1])) = 3
  /\ doc[1].comment = <<>>
  /\ ~doc[1].nl
  /\ Len(sink) = 1

(***************************************************************************)
(* C20.  When parse() has aborted with a lexical error, each v, vt, vn, vp *)
(* and f statement on a line before the line of the offending character    *)
(* has had its call, the calls in the order of the statements.             *)
(***************************************************************************)
\* the calls made for the statements of the lines before line n
StatementCallsBefore(n) ==
  SelectSeq(StatementCalls, LAMBDA e : e.at < LineStart(doc, n))

C20_EarlierLinesAreDelivered ==
  pc = "aborted" =>
    StatementCallsBefore(LineOf(err.pos)) = StatementsTo(LineOf(err.pos) - 1)

\* the statement on the line of the offending character is not delivered
C20_Witness ==
  /\ pc = "aborted"
  /\ Len(doc) = 2
  /\ IsStatement(doc[1])
  /\ HeadWord(doc[2]) = <<"v", "n">>
  /\ LineOf(err.pos) = 2
  /\ CallsOfLine(2) = <<>>
  /\ StatementCallsBefore(2) = <<[call |-> "onVertex", at |-> 1]>>

=============================================================================
